---- MODULE Spec2Model ----
(***************************************************************************)
(* research-paper-copilot: the citation-preserving RAG pipeline.           *)
(*   backend/ingest.py        process_file, smart_chunking                 *)
(*   backend/embeddings.py    EmbeddingManager over a ChromaDB collection  *)
(*   backend/retrieval.py     retrieve_relevant_chunks and the assembler   *)
(*   backend/rag_pipelines.py RAGPipeline, answer_question_with_citations  *)
(*                                                                         *)
(* Text is a sequence of atoms: single characters, and the literal words   *)
(* of the format strings ("Source", "Page", ...) kept whole.  Similarity   *)
(* and distance are counted in tenths (5 is 0.5).                          *)
(***************************************************************************)
EXTENDS Integers, Sequences, FiniteSets, TLC

\* ------------------------------------------------------------------ bounds
MaxTime == 1        \* int(time.time()) takes the values 0..MaxTime
MaxTopK == 2        \* top_k is drawn from 1..MaxTopK
MaxPieces == 3      \* a raw response is built from up to MaxPieces pieces (SpecLLM)
MaxTextLen == 6     \* a page to chunk holds up to MaxTextLen characters (SpecChunk)
MaxTargetSize == 5  \* target_size is drawn from 1..MaxTargetSize (SpecChunk)
MaxOverlapSize == 3 \* overlap_size is drawn from 0..MaxOverlapSize (SpecChunk)

\* ------------------------------------------------------- program constants
TARGET_SIZE == 150
OVERLAP_SIZE == 30
DEFAULT_TOP_K == 5
DEFAULT_MIN_SIMILARITY == 5

\* -------------------------------------------------------------------- text
IsSpace(c) == c \in {" ", "\n", "\t"}
IsTerminator(c) == c \in {".", "!", "?"}
IsDigit(c) == c \in {"0", "1", "2", "3", "4", "5", "6", "7", "8", "9"}

RECURSIVE LStrip(_)
LStrip(s) == IF s # <<>> /\ IsSpace(Head(s)) THEN LStrip(Tail(s)) ELSE s

RECURSIVE RStrip(_)
RStrip(s) ==
    IF s # <<>> /\ IsSpace(s[Len(s)]) THEN RStrip(SubSeq(s, 1, Len(s) - 1)) ELSE s

\* str.strip()
Strip(s) == RStrip(LStrip(s))

\* n copies of the atom c
Rep(c, n) == [i \in 1..n |-> c]

DigitOf(d) == <<"0", "1", "2", "3", "4", "5", "6", "7", "8", "9">>[d + 1]

\* str(n) of a natural number, as an f-string renders it
RECURSIVE Str(_)
Str(n) == IF n < 10 THEN <<DigitOf(n)>> ELSE Str(n \div 10) \o <<DigitOf(n % 10)>>

\* "\n".join(lines)
RECURSIVE Join(_)
Join(lines) ==
    IF lines = <<>> THEN <<>>
    ELSE IF Len(lines) = 1 THEN lines[1]
    ELSE lines[1] \o <<"\n">> \o Join(Tail(lines))

\* the python slice s[-n:]  (s[-0:] is the whole of s)
LastChars(s, n) == IF n = 0 \/ n >= Len(s) THEN s ELSE SubSeq(s, Len(s) - n + 1, Len(s))

\* ---------------------------------------------------------------- chunking
\* first index >= i of s that holds no whitespace (Len(s) + 1 if none)
RECURSIVE SkipSpaces(_, _)
SkipSpaces(s, i) ==
    IF i <= Len(s) /\ IsSpace(s[i]) THEN SkipSpaces(s, i + 1) ELSE i

\* where r'(?<=[.!?])\s+' matches in s: a whitespace run that follows a terminator
IsCut(s, i) == i > 1 /\ i <= Len(s) /\ IsSpace(s[i]) /\ IsTerminator(s[i - 1])

\* re.split(r'(?<=[.!?])\s+', s) from position i on: the text up to the next
\* match, then the split of what follows the match
RECURSIVE SplitFrom(_, _)
SplitFrom(s, i) ==
    LET cuts == {j \in i..Len(s) : IsCut(s, j)}
    IN  IF cuts = {} THEN <<SubSeq(s, i, Len(s))>>
        ELSE LET j == CHOOSE c \in cuts : \A d \in cuts : c <= d
             IN  <<SubSeq(s, i, j - 1)>> \o SplitFrom(s, SkipSpaces(s, j))

SplitSentences(text) == SplitFrom(Strip(text), 1)

MakeChunk(current_chunk) ==
    [content |-> Strip(current_chunk), length |-> Len(current_chunk)]

\* the loop of smart_chunking over sentences[k..], then the final chunk
RECURSIVE ChunkLoop(_, _, _, _, _, _)
ChunkLoop(sentences, k, chunks, current_chunk, target_size, overlap_size) ==
    IF k > Len(sentences)
    THEN IF Strip(current_chunk) # <<>>
         THEN Append(chunks, MakeChunk(current_chunk))
         ELSE chunks
    ELSE LET sentence == sentences[k]
             potential_chunk == IF current_chunk # <<>>
                                THEN current_chunk \o <<" ">> \o sentence
                                ELSE sentence
         IN  IF Len(potential_chunk) <= target_size
             THEN ChunkLoop(sentences, k + 1, chunks, potential_chunk,
                            target_size, overlap_size)
             ELSE LET flushed == IF current_chunk # <<>>
                                 THEN Append(chunks, MakeChunk(current_chunk))
                                 ELSE chunks
                      overlap == IF Len(current_chunk) >= overlap_size
                                 THEN LastChars(current_chunk, overlap_size)
                                 ELSE current_chunk
                      next_chunk == IF overlap # <<>>
                                    THEN overlap \o <<" ">> \o sentence
                                    ELSE sentence
                  IN  ChunkLoop(sentences, k + 1, flushed, next_chunk,
                                target_size, overlap_size)

smart_chunking(text, target_size, overlap_size) ==
    ChunkLoop(SplitSentences(text), 1, <<>>, <<>>, target_size, overlap_size)

\* chunk_pages_with_metadata: every chunk of a page carries its page number
RECURSIVE chunk_pages_with_metadata(_, _, _, _)
chunk_pages_with_metadata(pages_data, doc_metadata, target_size, overlap_size) ==
    IF pages_data = <<>> THEN <<>>
    ELSE LET page == Head(pages_data)
             page_chunks == smart_chunking(page.text, target_size, overlap_size)
         IN  [i \in 1..Len(page_chunks) |->
                 [content |-> page_chunks[i].content,
                  length |-> page_chunks[i].length,
                  page_number |-> page.page_number,
                  doc_id |-> doc_metadata.filename]]
             \o chunk_pages_with_metadata(Tail(pages_data), doc_metadata,
                                          target_size, overlap_size)

\* ------------------------------------------------------------------- files
\* The files on disk: a two-page PDF, a text file of two long sentences (two
\* chunks at the default sizes), a text file with a line break inside its one
\* sentence, an empty text file, a file of an unsupported type, a path that
\* does not exist.
LongText == Rep("a", 100) \o <<".", " ">> \o Rep("b", 80) \o <<".">>

Files ==
    { [name |-> "a.pdf", suffix |-> ".pdf", exists |-> TRUE,
       pages |-> << <<"A", "b", ".", " ", "C", "d", ".">>, <<"E", "f", ".">> >>],
      [name |-> "b.txt", suffix |-> ".txt", exists |-> TRUE, pages |-> <<LongText>>],
      [name |-> "c.txt", suffix |-> ".txt", exists |-> TRUE,
       pages |-> << <<"a", "b", "\n", "c", "d", ".">> >>],
      [name |-> "e.txt", suffix |-> ".txt", exists |-> TRUE, pages |-> << <<>> >>],
      [name |-> "x.csv", suffix |-> ".csv", exists |-> TRUE, pages |-> << <<"x">> >>],
      [name |-> "gone.pdf", suffix |-> ".pdf", exists |-> FALSE, pages |-> <<>>] }

Return(v) == [outcome |-> "return", value |-> v]
Raise(e) == [outcome |-> "raise", exc |-> e]

\* extract_text_with_pages: pages are numbered from 1
extract_text_with_pages(file) ==
    [i \in 1..Len(file.pages) |-> [page_number |-> i, text |-> file.pages[i]]]

extract_pdf_metadata(file) ==
    [filename |-> file.name, file_type |-> file.suffix, page_count |-> Len(file.pages)]

\* _extract_pdf: 'content' is the list of page-tagged chunks
extract_pdf(file) ==
    LET pages_data == extract_text_with_pages(file)
        meta_data == extract_pdf_metadata(file)
    IN  [content_type |-> "list",
         content |-> chunk_pages_with_metadata(pages_data, meta_data,
                                               TARGET_SIZE, OVERLAP_SIZE),
         metadata |-> meta_data]

\* _extract_text: 'content' is the file's text
extract_text(file) ==
    [content_type |-> "str",
     content |-> file.pages[1],
     metadata |-> [filename |-> file.name, file_type |-> file.suffix,
                   character_count |-> Len(file.pages[1])]]

process_file(file) ==
    IF ~file.exists THEN Raise("FileNotFoundError")
    ELSE IF file.suffix = ".pdf" THEN Return(extract_pdf(file))
    ELSE IF file.suffix \in {".txt", ".md"} THEN Return(extract_text(file))
    ELSE Raise("ValueError")

\* what process_file hands to add_document
ProcessedDocuments ==
    {process_file(f).value : f \in {g \in Files : process_file(g).outcome = "return"}}

\* ------------------------------------------------------------------- state
VARIABLES
    store,          \* the persisted collection "ai_research_paper": record id -> record
    written_by,     \* record id -> the doc_id and chunk_index of the chunk written there
    collection,     \* self.collection of the session's EmbeddingManager
    now,            \* int(time.time())
    last_add,       \* the latest add_document call that returned, and how it left the store
    ret,            \* what the latest call did: its outcome and its value
    pc,             \* position inside generate_answer_with_citations
    context_data,   \* its local context_data
    prompt,         \* its local prompt
    raw_response,   \* its local raw_response, and whether the model call had failed
    mode_arg        \* its argument mode

vars == <<store, written_by, collection, now, last_add, ret, pc, context_data,
          prompt, raw_response, mode_arg>>

storeVars == <<store, written_by, collection, last_add>>
ragVars == <<pc, context_data, prompt, raw_response, mode_arg>>

None == "None"
COLLECTION_NAME == "ai_research_paper"

\* ------------------------------------------------------- EmbeddingManager
\* _generate_doc_id: f"doc_{file_path}_{int(time.time())}"
generate_doc_id(file_path, time) == <<"doc_", file_path, "_", time>>

\* ids numbered on from the records the collection already holds
AppendingChunkId(doc_id, i) == <<"chunk_">> \o Str(Cardinality(DOMAIN store) + i)

\* the record id store_chunks gives chunk i: f"chunk_{i}"
StoreChunkId(doc_id, i) == <<"chunk_">> \o Str(i)

\* _generate_chunk_id: f"{doc_id}_chunk_{chunk_index}" (no caller)
generate_chunk_id(doc_id, chunk_index) == <<doc_id, "_chunk_">> \o Str(chunk_index)

\* the metadata store_chunks writes for chunk i (0-based)
ChunkMetadata(chunk, doc_metadata, i) ==
    [filename |-> doc_metadata.filename,
     chunk_id |-> i,
     length |-> chunk.length,
     topic |-> "ai research papers"]

\* add_document's enhanced_chunks (enumerate is 0-based)
EnhancedChunks(chunks, doc_id) ==
    [k \in 1..Len(chunks) |->
        [content |-> chunks[k].content, length |-> chunks[k].length,
         doc_id |-> doc_id, chunk_index |-> k - 1]]

AddFaults == {"none", "io_open", "embed", "io_add"}
DuplicatePolicies == {"raise", "ignore"}

\* store_chunks(chunks, doc_metadata).  fault is the collaborator failure met, if
\* any; on_duplicate is what collection.add does with an id it already holds:
\* it raises, or it keeps the record it has and skips the new one.
\* Yields the outcome, the new collection handle, store and written_by, and
\* the ids list as far as it was built.
store_chunks(chunks, doc_metadata, fault, on_duplicate) ==
    LET ids == [k \in 1..Len(chunks) |-> StoreChunkId(chunks[k].doc_id, k - 1)]
        same == [coll |-> COLLECTION_NAME, store |-> store, written_by |-> written_by,
                 ids |-> ids]
        fresh == {k \in 1..Len(chunks) : ids[k] \notin DOMAIN store}
        newIds == {ids[k] : k \in fresh}
        idx(id) == CHOOSE k \in fresh : ids[k] = id
    IN  IF fault = "io_open"
        THEN [res |-> Raise("StoreError"), coll |-> collection,
              store |-> store, written_by |-> written_by, ids |-> <<>>]
        ELSE IF fault = "embed"
             THEN [res |-> Raise("EmbeddingError"), ids |-> <<>>] @@ same
        ELSE IF fault = "io_add" THEN [res |-> Raise("StoreError")] @@ same
        ELSE IF chunks = <<>> THEN [res |-> Raise("ValueError")] @@ same
        ELSE IF newIds # {ids[k] : k \in 1..Len(chunks)} /\ on_duplicate = "raise"
             THEN [res |-> Raise("DuplicateIDError")] @@ same
        ELSE [res |-> Return(None),
              coll |-> COLLECTION_NAME,
              ids |-> ids,
              store |-> [id \in DOMAIN store \cup newIds |->
                            IF id \in DOMAIN store THEN store[id]
                            ELSE [document |-> chunks[idx(id)].content,
                                  metadata |-> ChunkMetadata(chunks[idx(id)],
                                                             doc_metadata, idx(id) - 1)]],
              written_by |-> [id \in DOMAIN store \cup newIds |->
                            IF id \in DOMAIN store THEN written_by[id]
                            ELSE [doc_id |-> chunks[idx(id)].doc_id,
                                  chunk_index |-> chunks[idx(id)].chunk_index]]]

\* smart_chunking(content) at its default sizes, tabulated by file name for
\* the documents whose 'content' is text
TextDocumentNames ==
    {d.metadata.filename : d \in {e \in ProcessedDocuments : e.content_type = "str"}}

ChunkedAtDefaults ==
    [name \in TextDocumentNames |->
        smart_chunking((CHOOSE d \in ProcessedDocuments : d.metadata.filename = name).content,
                       TARGET_SIZE, OVERLAP_SIZE)]

\* add_document(processed_document): smart_chunking runs on 'content', which
\* has str.strip() only when it is text
add_document(processed_document, fault, on_duplicate) ==
    LET doc_metadata == processed_document.metadata
        doc_id == generate_doc_id(doc_metadata.filename, now)
    IN  IF processed_document.content_type # "str"
        THEN [res |-> Raise("AttributeError"), coll |-> collection,
              store |-> store, written_by |-> written_by, doc_id |-> doc_id,
              ids |-> <<>>]
        ELSE LET chunks == ChunkedAtDefaults[doc_metadata.filename]
                 r == store_chunks(EnhancedChunks(chunks, doc_id), doc_metadata,
                                   fault, on_duplicate)
             IN  [res |-> IF r.res.outcome = "return" THEN Return(doc_id) ELSE r.res,
                  coll |-> r.coll, store |-> r.store, written_by |-> r.written_by,
                  doc_id |-> doc_id, ids |-> r.ids]

\* the distances (in tenths) the vector store may report
Distances == {2, 5, 8}

RECURSIVE IsNonDecreasing(_)
IsNonDecreasing(ds) ==
    Len(ds) < 2 \/ (ds[1] <= ds[2] /\ IsNonDecreasing(Tail(ds)))

\* collection.query(query_embeddings, n_results = top_k): the records it ranks
\* nearest, nearest first.  The embedding is opaque, so any records of the
\* store at any non-decreasing distances may come back.
QueryHits(top_k) ==
    LET n == IF top_k < Cardinality(DOMAIN store) THEN top_k
             ELSE Cardinality(DOMAIN store)
    IN  {h \in [1..n -> [id : DOMAIN store, distance : Distances]] :
            /\ \A i, j \in 1..n : i # j => h[i].id # h[j].id
            /\ IsNonDecreasing([i \in 1..n |-> h[i].distance])}

\* a variant of the sort in which a later record overtakes its equals
RECURSIVE InsertBeforeEquals(_, _)
InsertBeforeEquals(sorted, x) ==
    IF sorted = <<>> THEN <<x>>
    ELSE IF Head(sorted).similarity > x.similarity
         THEN <<Head(sorted)>> \o InsertBeforeEquals(Tail(sorted), x)
         ELSE <<x>> \o sorted

\* sorted(xs, key = similarity, reverse = True): stable
RECURSIVE InsertBySimilarity(_, _)
InsertBySimilarity(sorted, x) ==
    IF sorted = <<>> THEN <<x>>
    ELSE IF Head(sorted).similarity >= x.similarity
         THEN <<Head(sorted)>> \o InsertBySimilarity(Tail(sorted), x)
         ELSE <<x>> \o sorted

RECURSIVE SortedBySimilarity(_)
SortedBySimilarity(xs) ==
    IF xs = <<>> THEN <<>>
    ELSE InsertBySimilarity(SortedBySimilarity(SubSeq(xs, 1, Len(xs) - 1)),
                            xs[Len(xs)])

RECURSIVE FilterBySimilarity(_, _)
FilterBySimilarity(xs, min_similarity) ==
    IF xs = <<>> THEN <<>>
    ELSE (IF Head(xs).similarity >= min_similarity THEN <<Head(xs)>> ELSE <<>>)
         \o FilterBySimilarity(Tail(xs), min_similarity)

SearchFaults == {"none", "embed", "io"}

\* search_similar on a manager whose self.collection is handle; hits is what
\* collection.query returns
search_similar(handle, query, top_k, min_similarity, fault, hits) ==
    IF fault = "embed" THEN Raise("EmbeddingError")
    ELSE IF handle = None THEN Raise("AttributeError")
    ELSE IF fault = "io" THEN Raise("StoreError")
    ELSE LET found == [i \in 1..Len(hits) |->
                          [content |-> store[hits[i].id].document,
                           metadata |-> store[hits[i].id].metadata,
                           similarity |-> 10 - hits[i].distance]]
         IN  Return(SortedBySimilarity(FilterBySimilarity(found, min_similarity)))

\* the records collection.delete(where = {"doc_id": doc_id}) removes: those
\* whose metadata holds that doc_id
MatchesWhere(metadata, doc_id) ==
    "doc_id" \in DOMAIN metadata /\ metadata.doc_id = doc_id

\* delete_document: every exception is caught; the method returns None
delete_document(handle, doc_id, fault) ==
    LET gone == {id \in DOMAIN store : MatchesWhere(store[id].metadata, doc_id)}
        kept == DOMAIN store \ gone
    IN  IF handle = None \/ fault = "io"
        THEN [res |-> Return(None), store |-> store, written_by |-> written_by]
        ELSE [res |-> Return(None),
              store |-> [id \in kept |-> store[id]],
              written_by |-> [id \in kept |-> written_by[id]]]

\* list_documents: client.list_collections(), [] when it fails
list_documents(exists, fault) ==
    IF fault = "io" THEN Return(<<>>)
    ELSE Return(IF exists THEN <<COLLECTION_NAME>> ELSE <<>>)

\* EmbeddingManager.__init__ leaves self.collection = None
NewManagerCollection == None

\* ---------------------------------------------------------------- retrieval
PageText(metadata, default) ==
    IF "page_number" \in DOMAIN metadata THEN Str(metadata.page_number)
    ELSE <<default>>

SourceLabel(i) == <<"Source", " ">> \o Str(i)

\* f"Source {i} (Page {page_number}): {content}", page_number None when absent
ContextLine(i, result) ==
    SourceLabel(i) \o <<" ", "(", "Page", " ">> \o PageText(result.metadata, "None")
    \o <<")", ":", " ">> \o result.content

format_context_with_citations(search_results) ==
    Join([i \in 1..Len(search_results) |-> ContextLine(i, search_results[i])])

\* d[key] = value on an insertion-ordered dict, kept as a sequence of pairs
DictSet(d, key, value) ==
    IF \E k \in 1..Len(d) : d[k].key = key
    THEN [k \in 1..Len(d) |-> IF d[k].key = key THEN [key |-> key, value |-> value]
                              ELSE d[k]]
    ELSE Append(d, [key |-> key, value |-> value])

DictKeys(d) == [k \in 1..Len(d) |-> d[k].key]
DictGet(d, key) == d[CHOOSE k \in 1..Len(d) : d[k].key = key].value

\* f"{filename}, Page {page_number}", 'Unknown' for what the metadata lacks
CitationReference(metadata) ==
    (IF "filename" \in DOMAIN metadata THEN <<metadata.filename>> ELSE <<"Unknown">>)
    \o <<",", " ", "Page", " ">> \o PageText(metadata, "Unknown")

\* keys numbered from 0, as enumerate without start = 1 would
CitationKeyFromZero(i) == SourceLabel(i - 1)

\* the key extract_citation_info gives the result of rank i
CitationKey(i) == SourceLabel(i)

RECURSIVE CitationLoop(_, _, _)
CitationLoop(search_results, i, citation_map) ==
    IF i > Len(search_results) THEN citation_map
    ELSE CitationLoop(search_results, i + 1,
                      DictSet(citation_map, CitationKey(i),
                              CitationReference(search_results[i].metadata)))

extract_citation_info(search_results) == CitationLoop(search_results, 1, <<>>)

\* the dict retrieve_relevant_chunks returns for these search results
AssembleContext(query, search_results) ==
    [query |-> query,
     context_chunks |-> search_results,
     formatted_context |-> format_context_with_citations(search_results),
     citation_map |-> extract_citation_info(search_results)]

\* retrieve_relevant_chunks: a new EmbeddingManager per call (fault "io": its
\* PersistentClient cannot open the database); the failure of collection.get()
\* is swallowed, that of search_similar is not
retrieve_relevant_chunks(query, top_k, fault) ==
    LET search_results == search_similar(NewManagerCollection, query, top_k,
                                         DEFAULT_MIN_SIMILARITY, fault, <<>>)
    IN  IF fault = "io" THEN Raise("StoreError")
        ELSE IF search_results.outcome = "raise" THEN search_results
        ELSE Return(AssembleContext(query, search_results.value))

\* ------------------------------------------------------------- RAGPipeline
KnownModes == {"normal", "compare", "simplify"}
Modes == KnownModes \cup {"summarize"}

\* _build_citation_prompt: mode_instruction is bound only in the three branches
build_citation_prompt(cd, mode) ==
    IF mode \notin KnownModes THEN Raise("UnboundLocalError")
    ELSE Return([citation_instructions |-> cd.citation_map,
                 context |-> cd.formatted_context,
                 question |-> cd.query,
                 mode_instruction |-> mode])

ERROR_RESPONSE == <<"Error", " ", "generating", " ", "response">>

\* what the chat-completions call does: it raises, or it answers with content
LLMFailure == [ok |-> FALSE, content |-> <<>>]
LLMAnswer(content) == [ok |-> TRUE, content |-> content]

\* _call_llm: the stripped content, or the fixed string when anything raised
call_llm(p, llm) ==
    IF llm.ok THEN Strip(llm.content) ELSE ERROR_RESPONSE

\* the end of the run of digits of s that starts at j
RECURSIVE DigitsEnd(_, _)
DigitsEnd(s, j) == IF j <= Len(s) /\ IsDigit(s[j]) THEN DigitsEnd(s, j + 1) ELSE j

\* the pattern with \d* for \d+: no digit needed
MatchEndNoDigitNeeded(s, i) ==
    IF i + 3 <= Len(s) /\ s[i] = "(" /\ s[i + 1] = "Source" /\ s[i + 2] = " "
    THEN LET j == DigitsEnd(s, i + 3)
         IN  IF j <= Len(s) /\ s[j] = ")" THEN j ELSE 0
    ELSE 0

\* does r'\(Source \d+\)' match s at position i?  The end of the match, or 0.
MatchEnd(s, i) ==
    IF i + 4 <= Len(s) /\ s[i] = "(" /\ s[i + 1] = "Source" /\ s[i + 2] = " "
       /\ IsDigit(s[i + 3])
    THEN LET j == DigitsEnd(s, i + 3)
         IN  IF j <= Len(s) /\ s[j] = ")" THEN j ELSE 0
    ELSE 0

\* re.findall(citation_pattern, s): the matches from left to right, none overlapping
RECURSIVE FindAllFrom(_, _)
FindAllFrom(s, i) ==
    IF i > Len(s) THEN <<>>
    ELSE IF MatchEnd(s, i) # 0
         THEN <<SubSeq(s, i, MatchEnd(s, i))>> \o FindAllFrom(s, MatchEnd(s, i) + 1)
         ELSE FindAllFrom(s, i + 1)

FindCitations(raw) == FindAllFrom(raw, 1)

Confidence(has_citations) == IF has_citations THEN "high" ELSE "low"

\* _process_llm_response
process_llm_response(raw, cd) ==
    LET citations_found == FindCitations(raw)
        has_citations == Len(citations_found) > 0
    IN  [answer |-> Strip(raw),
         has_citations |-> has_citations,
         citations_used |-> citations_found,
         citation_map |-> cd.citation_map,
         query |-> cd.query,
         sources_count |-> Len(cd.context_chunks),
         confidence |-> Confidence(has_citations)]

\* generate_answer_with_citations once retrieve_relevant_chunks has ended as
\* retrieval says
generate_answer_with_citations(retrieval, mode, llm) ==
    IF retrieval.outcome = "raise" THEN retrieval
    ELSE LET p == build_citation_prompt(retrieval.value, mode)
         IN  IF p.outcome = "raise" THEN p
             ELSE Return(process_llm_response(call_llm(p.value, llm), retrieval.value))

\* the dict of answer_question_with_citations' except branch
ErrorResult(query, exc) ==
    [answer |-> <<"Error generating answer: ", exc>>,
     has_citations |-> FALSE,
     citations_used |-> <<>>,
     citation_map |-> <<>>,
     query |-> query,
     sources_count |-> 0,
     confidence |-> "error"]

\* a handler that catches ValueError alone
CatchValueErrorOnly(query, r) ==
    IF r.outcome = "raise" /\ r.exc = "ValueError"
    THEN Return(ErrorResult(query, r.exc)) ELSE r

\* the try/except of answer_question_with_citations around a call that ended as r
CatchAll(query, r) ==
    IF r.outcome = "raise" THEN Return(ErrorResult(query, r.exc)) ELSE r

\* answer_question_with_citations: RAGPipeline(api_key) raises ValueError on an
\* empty key
answer_question_with_citations(query, mode, api_key, retrieval, llm) ==
    CatchAll(query,
             IF api_key = "" THEN Raise("ValueError")
             ELSE generate_answer_with_citations(retrieval, mode, llm))

\* ------------------------------------------------------------------ inputs
Queries == {"Does it scale?"}
MinSimilarities == {DEFAULT_MIN_SIMILARITY}
ApiKeys == {"", "sk-test"}

Citation(n) == <<"(", "Source", " ">> \o Str(n) \o <<")">>

\* what the language model may answer
Responses ==
    { <<"I", "t", " ", "s", "c", "a", "l", "e", "s", ".">>,
      <<" ", "O", "k", ".", "\n">> \o Citation(1) \o <<",", " ">> \o Citation(12)
          \o <<"\n">> }

LLMOutcomes == {LLMFailure} \cup {LLMAnswer(r) : r \in Responses}

DocIds == {generate_doc_id(d.metadata.filename, t) : d \in ProcessedDocuments, t \in 0..now}

\* no call is under way: generate_answer_with_citations is not between two stages
Idle == pc \in {"idle", "done"}

NoAdd == [doc_id |-> <<>>, count |-> 0, repeat |-> FALSE]
NoContext == AssembleContext("", <<>>)
NoPrompt == [citation_instructions |-> <<>>, context |-> <<>>, question |-> "",
             mode_instruction |-> ""]
NoResponse == [text |-> <<>>, llm_failed |-> FALSE]

RagIdle ==
    /\ pc' = "idle"
    /\ context_data' = NoContext
    /\ prompt' = NoPrompt
    /\ raw_response' = NoResponse
    /\ mode_arg' = ""

Init ==
    /\ store = <<>>
    /\ written_by = <<>>
    /\ collection = None
    /\ now = 0
    /\ last_add = NoAdd
    /\ ret = [op |-> "init", outcome |-> "return", value |-> None]
    /\ pc = "idle"
    /\ context_data = NoContext
    /\ prompt = NoPrompt
    /\ raw_response = NoResponse
    /\ mode_arg = ""

\* ----------------------------------------------------------------- actions
\* the clock moves on
Tick ==
    /\ now < MaxTime
    /\ now' = now + 1
    /\ UNCHANGED <<storeVars, ret, ragVars>>

ProcessFile(file) ==
    /\ Idle
    /\ ret' = [op |-> "process_file", file |-> file.name] @@ process_file(file)
    /\ RagIdle
    /\ UNCHANGED <<storeVars, now>>

AddDocument(processed_document, fault, on_duplicate) ==
    /\ Idle
    /\ LET r == add_document(processed_document, fault, on_duplicate)
       IN  /\ store' = r.store
           /\ written_by' = r.written_by
           /\ collection' = r.coll
           /\ ret' = [op |-> "add_document", fault |-> fault,
                      document |-> processed_document.metadata.filename,
                      content_type |-> processed_document.content_type,
                      doc_id |-> r.doc_id,
                      ids |-> r.ids] @@ r.res
           /\ last_add' =
                 IF last_add.doc_id = r.doc_id
                 THEN [last_add EXCEPT !.repeat = TRUE]
                 ELSE IF r.res.outcome = "return"
                      THEN [doc_id |-> r.doc_id,
                            count |-> Cardinality(DOMAIN r.store),
                            repeat |-> FALSE]
                      ELSE last_add
    /\ RagIdle
    /\ UNCHANGED now

SearchSimilar(query, top_k, min_similarity, fault, hits) ==
    /\ Idle
    /\ ret' = [op |-> "search_similar", fault |-> fault, query |-> query,
               min_similarity |-> min_similarity, hits |-> hits]
              @@ search_similar(collection, query, top_k, min_similarity, fault, hits)
    /\ RagIdle
    /\ UNCHANGED <<storeVars, now>>

DeleteDocument(doc_id, fault) ==
    /\ Idle
    /\ LET r == delete_document(collection, doc_id, fault)
       IN  /\ store' = r.store
           /\ written_by' = r.written_by
           /\ ret' = [op |-> "delete_document", fault |-> fault, doc_id |-> doc_id,
                      removed |-> Cardinality(DOMAIN store) - Cardinality(DOMAIN r.store)]
                     @@ r.res
    /\ last_add' = NoAdd
    /\ RagIdle
    /\ UNCHANGED <<collection, now>>

ListDocuments(fault) ==
    /\ Idle
    /\ ret' = [op |-> "list_documents", fault |-> fault]
              @@ list_documents(collection # None, fault)
    /\ RagIdle
    /\ UNCHANGED <<storeVars, now>>

RetrieveRelevantChunks(query, top_k, fault) ==
    /\ Idle
    /\ ret' = [op |-> "retrieve_relevant_chunks", fault |-> fault]
              @@ retrieve_relevant_chunks(query, top_k, fault)
    /\ RagIdle
    /\ UNCHANGED <<storeVars, now>>

AnswerQuestion(query, mode, api_key, fault, llm) ==
    /\ Idle
    /\ LET retrieval == retrieve_relevant_chunks(query, DEFAULT_TOP_K, fault)
           llm_called == /\ api_key # ""
                         /\ retrieval.outcome = "return"
                         /\ build_citation_prompt(retrieval.value, mode).outcome = "return"
       IN  ret' = [op |-> "answer_question_with_citations", mode |-> mode,
                   query |-> query, llm_failed |-> llm_called /\ ~llm.ok]
                  @@ answer_question_with_citations(query, mode, api_key, retrieval, llm)
    /\ RagIdle
    /\ UNCHANGED <<storeVars, now>>

\* The stages of generate_answer_with_citations, one call each, run on the
\* results the session's search_similar returned.
\* retrieve_relevant_chunks' assembly: format_context_with_citations and
\* extract_citation_info
Assemble ==
    /\ ret.op = "search_similar"
    /\ ret.outcome = "return"
    /\ context_data' = AssembleContext(ret.query, ret.value)
    /\ pc' = "retrieved"
    /\ ret' = [op |-> "assemble", outcome |-> "return", value |-> None]
    /\ UNCHANGED <<storeVars, now, prompt, raw_response, mode_arg>>

BuildCitationPrompt(mode) ==
    /\ pc = "retrieved"
    /\ LET r == build_citation_prompt(context_data, mode)
       IN  IF r.outcome = "raise"
           THEN /\ ret' = [op |-> "generate_answer_with_citations", mode |-> mode,
                           llm_failed |-> FALSE] @@ r
                /\ RagIdle
           ELSE /\ prompt' = r.value
                /\ mode_arg' = mode
                /\ pc' = "prompted"
                /\ UNCHANGED <<ret, context_data, raw_response>>
    /\ UNCHANGED <<storeVars, now>>

CallLLM(llm) ==
    /\ pc = "prompted"
    /\ raw_response' = [text |-> call_llm(prompt, llm), llm_failed |-> ~llm.ok]
    /\ pc' = "responded"
    /\ UNCHANGED <<storeVars, now, ret, context_data, prompt, mode_arg>>

ProcessLLMResponse ==
    /\ pc = "responded"
    /\ ret' = [op |-> "generate_answer_with_citations", mode |-> mode_arg,
               llm_failed |-> raw_response.llm_failed]
              @@ Return(process_llm_response(raw_response.text, context_data))
    /\ pc' = "done"
    /\ UNCHANGED <<storeVars, now, context_data, prompt, raw_response, mode_arg>>

\* the collaborator failures a call can meet: add_document on a 'content' that
\* is no text ends before it reaches a collaborator, search_similar on a manager
\* without a collection before it reaches the store
FaultsMetByAdd(d) == IF d.content_type = "str" THEN AddFaults ELSE {"none"}
FaultsMetBySearch == IF collection = None THEN {"none", "embed"} ELSE SearchFaults

Next ==
    \/ Tick
    \/ \E f \in Files : ProcessFile(f)
    \/ \E d \in ProcessedDocuments, dup \in DuplicatePolicies :
          \E fault \in FaultsMetByAdd(d) : AddDocument(d, fault, dup)
    \/ \E q \in Queries, k \in 1..MaxTopK, m \in MinSimilarities :
          \E fault \in FaultsMetBySearch :
             \E hits \in (IF collection = None \/ fault # "none" THEN {<<>>}
                          ELSE QueryHits(k)) :
                SearchSimilar(q, k, m, fault, hits)
    \/ \E id \in DocIds, fault \in {"none", "io"} : DeleteDocument(id, fault)
    \/ \E fault \in {"none", "io"} : ListDocuments(fault)
    \/ \E q \in Queries, k \in 1..MaxTopK, fault \in SearchFaults :
          RetrieveRelevantChunks(q, k, fault)
    \/ \E q \in Queries, mode \in Modes, key \in ApiKeys, fault \in SearchFaults,
          llm \in LLMOutcomes : AnswerQuestion(q, mode, key, fault, llm)
    \/ Assemble
    \/ \E mode \in Modes : BuildCitationPrompt(mode)
    \/ \E llm \in LLMOutcomes : CallLLM(llm)
    \/ ProcessLLMResponse

Spec == Init /\ [][Next]_vars

\* ------------------------------------------- _process_llm_response alone
\* the pieces raw responses are built from: the atoms of the citation pattern,
\* other text, whole citations and a citation without its number
Pieces ==
    { <<"(">>, <<"Source">>, <<" ">>, <<"1">>, <<")">>, <<"x">>,
      Citation(1), Citation(23), <<"(", "Source", " ">> }

RECURSIVE Concat(_)
Concat(ps) == IF ps = <<>> THEN <<>> ELSE Head(ps) \o Concat(Tail(ps))

BoundedResponses ==
    {Concat(ps) : ps \in UNION {[1..n -> Pieces] : n \in 0..MaxPieces}}

\* _process_llm_response is about to run on some raw response
InitLLM ==
    /\ store = <<>>
    /\ written_by = <<>>
    /\ collection = None
    /\ now = 0
    /\ last_add = NoAdd
    /\ ret = [op |-> "assemble", outcome |-> "return", value |-> None]
    /\ pc = "responded"
    /\ context_data = AssembleContext("Does it scale?", <<>>)
    /\ prompt = build_citation_prompt(context_data, "normal").value
    /\ raw_response \in {[text |-> r, llm_failed |-> FALSE] : r \in BoundedResponses}
    /\ mode_arg = "normal"

NextLLM == ProcessLLMResponse

SpecLLM == InitLLM /\ [][NextLLM]_vars

\* ----------------------------------------------------- search_similar alone
\* search_similar over whatever the vector store may hand back: the records
\* of the store in any order, at any distances (cosine distance lies in 0..2),
\* for a range of thresholds
AllDistances == {0, 2, 5, 8, 12}
AllMinSimilarities == {0, 2, 5, 8, 10}

AnyHits(top_k) ==
    LET n == IF top_k < Cardinality(DOMAIN store) THEN top_k
             ELSE Cardinality(DOMAIN store)
    IN  {h \in [1..n -> [id : DOMAIN store, distance : AllDistances]] :
            \A i, j \in 1..n : i # j => h[i].id # h[j].id}

NextSearch ==
    \/ \E d \in ProcessedDocuments, dup \in DuplicatePolicies :
          AddDocument(d, "none", dup)
    \/ \E q \in Queries, k \in 1..MaxTopK, m \in AllMinSimilarities :
          \E hits \in (IF collection = None THEN {<<>>} ELSE AnyHits(k)) :
             SearchSimilar(q, k, m, "none", hits)

SpecSearch == Init /\ [][NextSearch]_vars

\* ----------------------------------------------------------- chunking alone
\* smart_chunking and chunk_pages_with_metadata called on every short page of
\* letters, sentence ends and blanks, at every small target and overlap size
TextAtoms == {"a", ".", " "}
Texts == UNION {[1..n -> TextAtoms] : n \in 0..MaxTextLen}
TargetSizes == 1..MaxTargetSize
OverlapSizes == 0..MaxOverlapSize

\* one call is followed from the start of a run
SmartChunking(text, target_size, overlap_size) ==
    /\ Idle
    /\ ret.op = "init"
    /\ ret' = [op |-> "smart_chunking", text |-> text, target_size |-> target_size,
               overlap_size |-> overlap_size]
              @@ Return(smart_chunking(text, target_size, overlap_size))
    /\ RagIdle
    /\ UNCHANGED <<storeVars, now>>

ChunkPagesWithMetadata(file, target_size, overlap_size) ==
    /\ Idle
    /\ ret.op = "init"
    /\ ret' = [op |-> "chunk_pages_with_metadata", file |-> file.name,
               target_size |-> target_size, overlap_size |-> overlap_size]
              @@ Return(chunk_pages_with_metadata(extract_text_with_pages(file),
                                                  extract_pdf_metadata(file),
                                                  target_size, overlap_size))
    /\ RagIdle
    /\ UNCHANGED <<storeVars, now>>

\* the inputs of the call to come: none once the call was made
Pending(inputs) == IF ret.op = "init" THEN inputs ELSE {}

NextChunk ==
    \/ \E text \in Pending(Texts), t \in TargetSizes, o \in OverlapSizes :
          SmartChunking(text, t, o)
    \/ \E f \in Pending({g \in Files : g.exists /\ g.suffix = ".pdf"}),
          t \in TargetSizes, o \in OverlapSizes :
          ChunkPagesWithMetadata(f, t, o)

SpecChunk == Init /\ [][NextChunk]_vars

\* ------------------------------------------------------------------ claims
\* C1: when the language-model call fails during answer synthesis, the result
\* returned has confidence "error" and has_citations false, never confidence
\* "low" or "high".
C1_GenerationFailureIsError ==
    (/\ ret.op \in {"generate_answer_with_citations", "answer_question_with_citations"}
     /\ ret.outcome = "return"
     /\ ret.llm_failed)
    => /\ ret.value.confidence = "error"
       /\ ret.value.has_citations = FALSE

\* C2: answer_question_with_citations never raises: whatever the query, the
\* mode (one outside normal/compare/simplify too), the API key and the failure
\* of retrieval, prompt building or generation, it returns a result holding
\* answer, has_citations, citation_map, sources_count and confidence, with
\* confidence one of high, low, error.  Stated of the call made, and of the
\* call on every context the assembler has built.
WellFormedResult(r) ==
    /\ r.outcome = "return"
    /\ {"answer", "has_citations", "citation_map", "sources_count", "confidence"}
          \subseteq DOMAIN r.value
    /\ r.value.confidence \in {"high", "low", "error"}
    /\ r.value.has_citations \in BOOLEAN
    /\ r.value.sources_count \in Nat

C2_AnswerNeverRaises ==
    /\ ret.op = "answer_question_with_citations" => WellFormedResult(ret)
    /\ pc # "idle" =>
          \A mode \in Modes, key \in ApiKeys, llm \in LLMOutcomes :
             \A retrieval \in {Return(context_data), Raise("AttributeError"),
                               Raise("EmbeddingError")} :
                WellFormedResult(answer_question_with_citations(
                                    context_data.query, mode, key, retrieval, llm))

\* C2's case: a call with a mode outside the three known ones has returned
C2_Witness ==
    /\ ret.op = "answer_question_with_citations"
    /\ ret.mode \notin KnownModes
    /\ ret.outcome = "return"
    /\ ret.value.confidence = "error"

\* the lines of a text: the pieces between its "\n" atoms
RECURSIVE SplitLines(_)
SplitLines(text) ==
    LET breaks == {j \in 1..Len(text) : text[j] = "\n"}
    IN  IF breaks = {} THEN <<text>>
        ELSE LET j == CHOOSE b \in breaks : \A c \in breaks : b <= c
             IN  <<SubSeq(text, 1, j - 1)>> \o SplitLines(SubSeq(text, j + 1, Len(text)))

StartsWith(text, prefix) ==
    Len(prefix) <= Len(text) /\ SubSeq(text, 1, Len(prefix)) = prefix

IsSourceLine(line) == StartsWith(line, <<"Source", " ">>)

\* the "Source N" lines of a formatted context, in order
SourceLines(formatted_context) ==
    IF formatted_context = <<>> THEN <<>>
    ELSE SelectSeq(SplitLines(formatted_context), IsSourceLine)

\* C3: after process_file then add_document, page provenance survives storage
\* and retrieval: every chunk process_file cut from page p of file f is stored
\* with filename f and page p, and every search result that carries page p of
\* file f is shown as "Source i (Page p): ..." with citation_map["Source i"] =
\* "f, Page p".
C3_PageProvenanceSurvives ==
    /\ (/\ ret.op = "add_document"
        /\ ret.fault = "none"
        /\ ret.content_type = "list")
       => LET document == CHOOSE d \in ProcessedDocuments :
                             d.metadata.filename = ret.document
          IN  /\ ret.outcome = "return"
              /\ \A k \in 1..Len(document.content) :
                    \E id \in DOMAIN store :
                       /\ store[id].document = document.content[k].content
                       /\ store[id].metadata.filename = ret.document
                       /\ "page_number" \in DOMAIN store[id].metadata
                       /\ store[id].metadata.page_number
                             = document.content[k].page_number
    /\ pc # "idle" =>
          \A i \in 1..Len(context_data.context_chunks) :
             LET m == context_data.context_chunks[i].metadata
             IN  "page_number" \in DOMAIN m =>
                    /\ StartsWith(SourceLines(context_data.formatted_context)[i],
                                  SourceLabel(i) \o <<" ", "(", "Page", " ">>
                                  \o Str(m.page_number) \o <<")", ":", " ">>)
                    /\ DictGet(context_data.citation_map, SourceLabel(i))
                          = <<m.filename, ",", " ", "Page", " ">> \o Str(m.page_number)

\* C9: the rank numbers of formatted_context's "Source N" lines and the keys of
\* citation_map are the same, "Source 1" .. "Source len(results)"; line N and
\* key N describe result N; no results give an empty context and an empty map.
C9_NumberingAgrees ==
    pc # "idle" =>
       LET results == context_data.context_chunks
           n == Len(results)
           lines == SourceLines(context_data.formatted_context)
           cmap == context_data.citation_map
       IN  /\ Len(lines) = n
           /\ DictKeys(cmap) = [i \in 1..n |-> SourceLabel(i)]
           /\ \A i \in 1..n :
                 /\ StartsWith(lines[i], SourceLabel(i) \o <<" ", "(">>)
                 /\ lines[i] = SourceLabel(i) \o <<" ", "(", "Page", " ">>
                               \o PageText(results[i].metadata, "None")
                               \o <<")", ":", " ">>
                               \o SplitLines(results[i].content)[1]
                 /\ cmap[i].value = <<results[i].metadata.filename, ",", " ", "Page", " ">>
                                    \o PageText(results[i].metadata, "Unknown")
           /\ n = 0 => (context_data.formatted_context = <<>> /\ cmap = <<>>)

\* C9's case: a context assembled from two results
C9_Witness ==
    /\ pc # "idle"
    /\ Len(context_data.context_chunks) = 2
    /\ Len(context_data.citation_map) = 2

\* C4: record ids are unique across documents: a record id names one
\* document id and one sequence index, so the ids an add_document call hands
\* to the store never name a record written for another document.
C4_RecordIdsGloballyUnique ==
    ret.op = "add_document" =>
       \A k \in 1..Len(ret.ids) :
          ret.ids[k] \in DOMAIN written_by =>
             written_by[ret.ids[k]] = [doc_id |-> ret.doc_id, chunk_index |-> k - 1]

\* C5: after delete_document(doc_id) no record written by the add_document
\* call that returned doc_id is left in the store (so no search can return
\* one); deleting an id the store does not hold succeeds and removes nothing.
C5_DeleteRemovesDocument ==
    (ret.op = "delete_document" /\ ret.fault = "none") =>
       /\ ret.outcome = "return"
       /\ \A id \in DOMAIN written_by : written_by[id].doc_id # ret.doc_id

\* C6: add_document called twice with the same document_id and the same
\* chunks leaves as many records in the store as the first call left.
C6_ReAddKeepsCount ==
    last_add.repeat => Cardinality(DOMAIN store) = last_add.count

\* C6's case: the second of two such calls has returned, on a store of two records
C6_Witness ==
    /\ last_add.repeat
    /\ ret.op = "add_document"
    /\ ret.outcome = "return"
    /\ ret.doc_id = last_add.doc_id
    /\ last_add.count = 2

\* C7: search on a store without records returns an empty sequence and does
\* not raise, also on a manager to which no document has been added, such as
\* the one retrieve_relevant_chunks creates.
C7_EmptyStoreSearchIsEmpty ==
    /\ (ret.op = "search_similar" /\ ret.fault = "none" /\ DOMAIN store = {})
       => (ret.outcome = "return" /\ ret.value = <<>>)
    /\ (ret.op = "retrieve_relevant_chunks" /\ ret.fault = "none" /\ DOMAIN store = {})
       => (ret.outcome = "return" /\ ret.value.context_chunks = <<>>)

\* C8: a collaborator I/O failure inside add_document, search, delete_document
\* or list_documents is caught and reported as a false or empty return value,
\* never raised to the caller; an embedding failure is raised.
C8_StoreFailuresAreAbsorbed ==
    ret.op \in {"add_document", "search_similar", "delete_document", "list_documents"}
    => /\ ret.fault \in {"io", "io_open", "io_add"} =>
             /\ ret.outcome = "return"
             /\ ret.op = "add_document" => ret.value = FALSE
             /\ ret.op \in {"search_similar", "list_documents"} => ret.value = <<>>
             /\ ret.op = "delete_document" => ret.value = None
       /\ ret.fault = "embed" => ret.outcome = "raise"

\* the places where "(Source <integer>)" occurs in a text, as <<first, last>>
IsCitationAt(text, i, j) ==
    /\ i + 4 <= j /\ j <= Len(text)
    /\ text[i] = "(" /\ text[i + 1] = "Source" /\ text[i + 2] = " " /\ text[j] = ")"
    /\ \A k \in (i + 3)..(j - 1) : IsDigit(text[k])

Occurrences(text) ==
    {o \in (1..Len(text)) \X (1..Len(text)) : IsCitationAt(text, o[1], o[2])}

\* the occurrences from left to right
RECURSIVE InOrder(_)
InOrder(occ) ==
    IF occ = {} THEN <<>>
    ELSE LET first == CHOOSE o \in occ : \A q \in occ : o[1] <= q[1]
         IN  <<first>> \o InOrder(occ \ {first})

\* C10: for every raw response, has_citations is true and confidence "high"
\* exactly when "(Source <integer>)" occurs in the response, otherwise
\* has_citations is false and confidence "low"; citations_used lists the
\* occurrences.
C10_CitationValidation ==
    (pc = "done" /\ ret.op = "generate_answer_with_citations") =>
       LET raw == raw_response.text
           occ == InOrder(Occurrences(raw))
       IN  /\ ret.value.has_citations = (occ # <<>>)
           /\ ret.value.confidence = (IF occ # <<>> THEN "high" ELSE "low")
           /\ ret.value.citations_used
                 = [n \in 1..Len(occ) |-> SubSeq(raw, occ[n][1], occ[n][2])]

\* C10's case: a response with two citations has been processed
C10_Witness ==
    /\ pc = "done"
    /\ ret.op = "generate_answer_with_citations"
    /\ Len(ret.value.citations_used) = 2
    /\ ret.value.confidence = "high"

\* the record search_similar makes of hit h: content, metadata, 1 - distance
ResultOf(h) ==
    [content |-> store[h.id].document,
     metadata |-> store[h.id].metadata,
     similarity |-> 10 - h.distance]

\* C11: the sequence search returns is the store's returned records, each with
\* similarity = 1 - distance, without those of similarity < min_similarity,
\* by descending similarity, equals staying in the order the store gave them.
C11_SearchFiltersAndSorts ==
    (ret.op = "search_similar" /\ ret.outcome = "return") =>
       LET hits == ret.hits
           kept == {i \in 1..Len(hits) : 10 - hits[i].distance >= ret.min_similarity}
           r == ret.value
       IN  /\ Len(r) = Cardinality(kept)
           /\ \A k \in 1..Len(r) : r[k].similarity >= ret.min_similarity
           /\ \E p \in [1..Len(r) -> kept] :
                 /\ \A k \in 1..Len(r) : r[k] = ResultOf(hits[p[k]])
                 /\ \A k, l \in 1..Len(r) :
                       k < l => \/ r[k].similarity > r[l].similarity
                                \/ /\ r[k].similarity = r[l].similarity
                                   /\ p[k] < p[l]

\* C11's case: a search has returned two results of equal similarity
C11_Witness ==
    /\ ret.op = "search_similar"
    /\ ret.outcome = "return"
    /\ Len(ret.value) = 2
    /\ ret.hits[1].distance = ret.hits[2].distance

\* C12: every chunk made by chunking a page, at any target_size and
\* overlap_size, has a length field equal to the number of characters of its
\* content field.
C12_LengthIsContentLength ==
    ret.op \in {"smart_chunking", "chunk_pages_with_metadata"} =>
       \A k \in 1..Len(ret.value) :
          ret.value[k].length = Len(ret.value[k].content)

\* the trailing n characters of s, all of s when it is shorter (none for n = 0)
Trailing(s, n) == IF n >= Len(s) THEN s ELSE SubSeq(s, Len(s) - n + 1, Len(s))

\* the sentences of a text, the empty text having none
SentencesOf(text) == SelectSeq(SplitSentences(text), LAMBDA t : t # <<>>)

\* what chunk k holds beyond the overlap it repeats from chunk k - 1: its
\* content without the trailing overlap_size characters of that chunk
NonOverlap(chunks, k, overlap_size) ==
    IF k = 1 THEN chunks[1].content
    ELSE LET repeated == LStrip(Trailing(chunks[k - 1].content, overlap_size))
             content == chunks[k].content
         IN  IF StartsWith(content, repeated)
             THEN SubSeq(content, Len(repeated) + 1, Len(content))
             ELSE content

RECURSIVE NonOverlapSentences(_, _, _)
NonOverlapSentences(chunks, k, overlap_size) ==
    IF k > Len(chunks) THEN <<>>
    ELSE SentencesOf(NonOverlap(chunks, k, overlap_size))
         \o NonOverlapSentences(chunks, k + 1, overlap_size)

\* C13: for all chunking inputs the non-overlap parts of the successive
\* chunks, put together, are the page's sentences: each sentence whole, once,
\* in its original order, none split across chunks.
C13_NonOverlapReconstructs ==
    ret.op = "smart_chunking" =>
       NonOverlapSentences(ret.value, 1, ret.overlap_size) = SentencesOf(ret.text)

\* C15: on a page whose sentences are all of length <= target_size, with
\* overlap_size < target_size, every chunk emitted has length <= target_size.
C15_ChunksWithinTarget ==
    (/\ ret.op = "smart_chunking"
     /\ ret.overlap_size < ret.target_size
     /\ \A k \in 1..Len(SentencesOf(ret.text)) :
           Len(SentencesOf(ret.text)[k]) <= ret.target_size)
    => \A k \in 1..Len(ret.value) : Len(ret.value[k].content) <= ret.target_size

\* the label a citation token names: "(Source 3)" names "Source 3"
LabelOf(token) == SubSeq(token, 2, Len(token) - 1)

\* C14: a result with has_citations true (confidence "high") cites only labels
\* that are keys of its citation_map; a result with an empty citation_map
\* (sources_count 0) is never of confidence "high".
C14_CitationsNameSources ==
    (/\ ret.op = "generate_answer_with_citations"
     /\ ret.outcome = "return"
     /\ ret.value.has_citations)
    => /\ \A k \in 1..Len(ret.value.citations_used) :
             \E j \in 1..Len(ret.value.citation_map) :
                ret.value.citation_map[j].key = LabelOf(ret.value.citations_used[k])
       /\ ret.value.citation_map # <<>>
       /\ ret.value.sources_count > 0
====
